---- MODULE Spec2Model ----
(***************************************************************************)
(* Model of session_manager.py: a FastAPI application with three GET       *)
(* routes (/health, /, /waiting).  The two template routes test a fixed    *)
(* path with Path.exists() and, when it exists, return Path.read_text();   *)
(* otherwise they return a literal HTML string.                            *)
(*                                                                         *)
(* The filesystem is shared with other processes, so a template handler is *)
(* modelled in two steps (the exists() call, then the read_text() call)    *)
(* between which the filesystem may change.  Text is a sequence of         *)
(* chunks; a file holds "bytes" (the same chunks, plus CR, LF and a byte   *)
(* that is not valid in the text encoding).                                *)
(***************************************************************************)
EXTENDS Integers, Sequences, FiniteSets

VARIABLES
    environ,   \* SESSION_MANAGER_PORT in the process environment
    proc,      \* the server process: state, bound host and port
    fs,        \* the two template paths on disk
    req        \* the request slots (connections) of the server

vars == <<environ, proc, fs, req>>

\* Number of requests the server processes at the same time.
MaxRequests == 2

Slots == 1..MaxRequests

-----------------------------------------------------------------------------
(* Text and bytes *)

CR == "\r"
LF == "\n"
BadByte == "0xFF"

IndexFallback ==
    <<"<html><body><h1>Session Manager</h1><p>Service is running</p></body></html>">>

WaitingFallback == <<"<html><body><h1>Waiting</h1></body></html>">>

\* File contents the other actors may write.
SampleContents ==
    { <<>>,
      <<"<p>a</p>", CR, LF, "<p>b</p>", CR>>,
      <<"<p>a</p>", BadByte>> }

-----------------------------------------------------------------------------
(* The filesystem *)

IndexTemplate == "/tmp/templates/index.html"
WaitingTemplate == "/tmp/templates/waiting.html"

TemplatePaths == {IndexTemplate, WaitingTemplate}

Absent == [kind |-> "absent", bytes |-> <<>>]
Directory == [kind |-> "dir", bytes |-> <<>>]
RegularFile(b) == [kind |-> "file", bytes |-> b]
\* A regular file the server process has no permission to open (its bytes,
\* which the server cannot see, are left out).
UnreadableFile == [kind |-> "noperm", bytes |-> <<>>]

Nodes ==
    {Absent, Directory, UnreadableFile}
        \cup {RegularFile(b) : b \in SampleContents}

exists_nonempty(node) == node.kind # "absent" /\ node.bytes # <<>>

\* Path.exists(): os.stat() succeeds, whatever the kind of the entry.
exists(node) == node.kind # "absent"

\* Text decoding of read_text(): strict, fails on a byte outside the encoding.
Decodable(b) == \A i \in 1..Len(b) : b[i] # BadByte

\* Universal newlines of text mode: CR LF and a lone CR are read as LF.
RECURSIVE TranslateNewlines(_)
TranslateNewlines(b) ==
    IF b = <<>> THEN <<>>
    ELSE IF Head(b) = CR
         THEN IF Len(b) > 1 /\ b[2] = LF
              THEN <<LF>> \o TranslateNewlines(SubSeq(b, 3, Len(b)))
              ELSE <<LF>> \o TranslateNewlines(Tail(b))
         ELSE <<Head(b)>> \o TranslateNewlines(Tail(b))

RECURSIVE DropBadBytes(_)
DropBadBytes(b) ==
    IF b = <<>> THEN <<>>
    ELSE IF Head(b) = BadByte THEN DropBadBytes(Tail(b))
    ELSE <<Head(b)>> \o DropBadBytes(Tail(b))

read_text_lenient(node) ==
    CASE node.kind = "absent" -> [ok |-> FALSE, text |-> <<>>, err |-> "FileNotFoundError"]
      [] node.kind = "file"   ->
            [ok |-> TRUE, text |-> TranslateNewlines(DropBadBytes(node.bytes)), err |-> ""]
      [] OTHER                -> [ok |-> TRUE, text |-> <<>>, err |-> ""]

\* Path.read_text(): open(mode='r') and read(); the text, or the exception raised.
read_text(node) ==
    CASE node.kind = "absent" -> [ok |-> FALSE, text |-> <<>>, err |-> "FileNotFoundError"]
      [] node.kind = "dir"    -> [ok |-> FALSE, text |-> <<>>, err |-> "IsADirectoryError"]
      [] node.kind = "noperm" -> [ok |-> FALSE, text |-> <<>>, err |-> "PermissionError"]
      [] node.kind = "file"   ->
            IF Decodable(node.bytes)
            THEN [ok |-> TRUE, text |-> TranslateNewlines(node.bytes), err |-> ""]
            ELSE [ok |-> FALSE, text |-> <<>>, err |-> "UnicodeDecodeError"]

-----------------------------------------------------------------------------
(* Startup: the __main__ block *)

Unset == [set |-> FALSE, val |-> <<>>]
SetTo(v) == [set |-> TRUE, val |-> v]

\* Values of SESSION_MANAGER_PORT the service may be started with.
EnvSamples ==
    { Unset,
      SetTo(<<" ", "9", "0">>),
      SetTo(<<"x">>),
      SetTo(<<>>),
      SetTo(<<"-", "1">>) }

DefaultPortMistyped == <<"8", "0", "0", "0">>

\* The default of os.getenv("SESSION_MANAGER_PORT", "8080").
DefaultPort == <<"8", "0", "8", "0">>

getenv(default) == IF environ.set THEN environ.val ELSE default

DigitChars == <<"0", "1", "2", "3", "4", "5", "6", "7", "8", "9">>
IsDigit(c) == \E i \in 1..10 : DigitChars[i] = c
DigitValue(c) == (CHOOSE i \in 1..10 : DigitChars[i] = c) - 1

RECURSIVE Strip(_)
Strip(s) ==
    IF s = <<>> THEN s
    ELSE IF Head(s) = " " THEN Strip(Tail(s))
    ELSE IF s[Len(s)] = " " THEN Strip(SubSeq(s, 1, Len(s) - 1))
    ELSE s

RECURSIVE Decimal(_)
Decimal(d) ==
    IF d = <<>> THEN 0
    ELSE 10 * Decimal(SubSeq(d, 1, Len(d) - 1)) + DigitValue(d[Len(d)])

\* int(str): surrounding whitespace, an optional sign, decimal digits;
\* anything else raises ValueError.
int(s) ==
    LET t == Strip(s)
        signed == t # <<>> /\ Head(t) \in {"-", "+"}
        d == IF signed THEN Tail(t) ELSE t
    IN IF d = <<>> \/ \E i \in 1..Len(d) : ~IsDigit(d[i])
       THEN [ok |-> FALSE, value |-> 0]
       ELSE [ok |-> TRUE,
             value |-> IF signed /\ Head(t) = "-" THEN 0 - Decimal(d) ELSE Decimal(d)]

Crashed(e) == [state |-> "crashed", host |-> "", port |-> 0, error |-> e]

\* uvicorn.run(app, host, port): binds the socket, or fails on a port outside 0..65535.
uvicorn_run(host, port) ==
    IF port \in 0..65535
    THEN [state |-> "listening", host |-> host, port |-> port, error |-> ""]
    ELSE Crashed("OverflowError")

main ==
    /\ proc.state = "init"
    /\ LET port == int(getenv(DefaultPort))
       IN proc' = IF port.ok THEN uvicorn_run("0.0.0.0", port.value)
                  ELSE Crashed("ValueError")
    /\ UNCHANGED <<environ, fs, req>>

-----------------------------------------------------------------------------
(* Responses *)

NoResponse == [status |-> 0]

HTMLResponse(text) ==
    [status |-> 200, ctype |-> "text/html; charset=utf-8", body |-> text]

JSONResponse(obj) ==
    [status |-> 200, ctype |-> "application/json", body |-> obj]

\* An exception that leaves the handler: the framework's generic error response.
InternalServerError ==
    [status |-> 500, ctype |-> "text/plain; charset=utf-8",
     body |-> <<"Internal Server Error">>]

\* No route matches: the framework's default handler.
NotFound ==
    [status |-> 404, ctype |-> "application/json", body |-> [detail |-> "Not Found"]]

RedirectResponse(url) ==
    [status |-> 307, ctype |-> "", body |-> <<>>, location |-> url]

-----------------------------------------------------------------------------
(* The router of app = FastAPI() with the three @app.get routes *)

\* Request paths, as sequences of "/" and segment names.
RequestPaths ==
    { <<"/">>,
      <<"/", "health">>,
      <<"/", "waiting">>,
      <<"/", "waiting", "/">>,
      <<"/", "missing">> }

\* The routes in registration order.
Routes ==
    << [path |-> <<"/", "health">>, endpoint |-> "health"],
       [path |-> <<"/">>, endpoint |-> "index"],
       [path |-> <<"/", "waiting">>, endpoint |-> "waiting"] >>

ToggleSlash(path) ==
    IF path[Len(path)] = "/" THEN SubSeq(path, 1, Len(path) - 1)
    ELSE Append(path, "/")

IsPrefix(a, b) == Len(a) <= Len(b) /\ SubSeq(b, 1, Len(a)) = a

RoutePrefix(path) ==
    IF \E i \in 1..Len(Routes) : IsPrefix(Routes[i].path, path)
    THEN [kind |-> "endpoint",
          endpoint |-> Routes[CHOOSE i \in 1..Len(Routes) :
                                /\ IsPrefix(Routes[i].path, path)
                                /\ \A j \in 1..(i - 1) : ~IsPrefix(Routes[j].path, path)].endpoint]
    ELSE [kind |-> "default"]

\* The first route whose path equals the request path; failing that, with the
\* router's redirect_slashes default, a redirect when the path with its trailing
\* slash toggled is a route; failing that, the default (not found) handler.
Route(path) ==
    IF \E i \in 1..Len(Routes) : Routes[i].path = path
    THEN [kind |-> "endpoint",
          endpoint |-> Routes[CHOOSE i \in 1..Len(Routes) :
                                /\ Routes[i].path = path
                                /\ \A j \in 1..(i - 1) : Routes[j].path # path].endpoint]
    ELSE IF path # <<"/">> /\ \E i \in 1..Len(Routes) : Routes[i].path = ToggleSlash(path)
    THEN [kind |-> "redirect", location |-> ToggleSlash(path)]
    ELSE [kind |-> "default"]

Dispatches(path, endpoint) == Route(path) = [kind |-> "endpoint", endpoint |-> endpoint]

-----------------------------------------------------------------------------
(* Requests *)

\* A free slot.  ret is the source line of the return statement the handler
\* executed (0: none), err the exception that left the handler ("": none),
\* stable whether the path the route is documented to serve has stayed as it
\* was since the request was dispatched.
Idle ==
    [path |-> <<>>, pc |-> "idle", handler |-> "none", ret |-> 0, err |-> "",
     stable |-> TRUE, resp |-> NoResponse]

\* A request is accepted while the server listens; it takes the lowest free slot
\* (the slots are interchangeable).
Accepting(r) ==
    /\ proc.state = "listening"
    /\ req[r].pc = "idle"
    /\ \A q \in 1..(r - 1) : req[q].pc # "idle"

Done(path, handler, ret, err, stable, resp) ==
    [path |-> path, pc |-> "done", handler |-> handler, ret |-> ret, err |-> err,
     stable |-> stable, resp |-> resp]

HealthPayloadProbing ==
    IF exists(fs[IndexTemplate]) THEN [status |-> "healthy"] ELSE [status |-> "degraded"]

HealthPayload == [status |-> "healthy"]

\* GET /health
health(r) ==
    \E path \in RequestPaths :
        /\ Accepting(r)
        /\ Dispatches(path, "health")
        /\ req' = [req EXCEPT ![r] =
                      Done(path, "health", 12, "", TRUE, JSONResponse(HealthPayload))]
        /\ UNCHANGED <<environ, proc, fs>>

TemplatePathCopied(endpoint) == IndexTemplate

\* template_path of each template handler.
TemplatePathOf(endpoint) ==
    IF endpoint = "index" THEN IndexTemplate ELSE WaitingTemplate

FallbackCopied(endpoint) == WaitingFallback

\* The literal each template handler returns when its path does not exist.
FallbackOf(endpoint) ==
    IF endpoint = "index" THEN IndexFallback ELSE WaitingFallback

\* GET / , first step: dispatch and `if template_path.exists()`; when the
\* path does not exist the handler returns its fallback at once.
index(r) ==
    \E path \in RequestPaths :
        /\ Accepting(r)
        /\ Dispatches(path, "index")
        /\ req' = [req EXCEPT ![r] =
                      IF exists(fs[TemplatePathOf("index")])
                      THEN [path |-> path, pc |-> "read", handler |-> "index",
                            ret |-> 0, err |-> "", stable |-> TRUE,
                            resp |-> NoResponse]
                      ELSE Done(path, "index", 19, "", TRUE,
                                HTMLResponse(FallbackOf("index")))]
        /\ UNCHANGED <<environ, proc, fs>>

template_path_global(r) ==
    IF \E q \in Slots : q # r /\ req[q].pc = "read"
    THEN TemplatePathOf(req[CHOOSE q \in Slots : q # r /\ req[q].pc = "read"].handler)
    ELSE TemplatePathOf(req[r].handler)

\* The handler's local variable template_path, during its read.
template_path(r) == TemplatePathOf(req[r].handler)

index_read_text_unlink(r) ==
    /\ req[r].pc = "read"
    /\ req[r].handler = "index"
    /\ LET t == read_text(fs[template_path(r)])
       IN req' = [req EXCEPT ![r] =
                     IF t.ok
                     THEN Done(req[r].path, "index", 18, "", req[r].stable,
                               HTMLResponse(t.text))
                     ELSE Done(req[r].path, "index", 0, t.err, req[r].stable,
                               InternalServerError)]
    /\ fs' = [fs EXCEPT ![template_path(r)] = Absent]
    /\ UNCHANGED <<environ, proc>>

\* GET / , second step: `return template_path.read_text()`; an exception is
\* not caught and leaves the handler.
index_read_text(r) ==
    /\ req[r].pc = "read"
    /\ req[r].handler = "index"
    /\ LET t == read_text(fs[template_path(r)])
       IN req' = [req EXCEPT ![r] =
                     IF t.ok
                     THEN Done(req[r].path, "index", 18, "", req[r].stable,
                               HTMLResponse(t.text))
                     ELSE Done(req[r].path, "index", 0, t.err, req[r].stable,
                               InternalServerError)]
    /\ UNCHANGED <<environ, proc, fs>>

\* GET /waiting, first step.
waiting(r) ==
    \E path \in RequestPaths :
        /\ Accepting(r)
        /\ Dispatches(path, "waiting")
        /\ req' = [req EXCEPT ![r] =
                      IF exists(fs[TemplatePathOf("waiting")])
                      THEN [path |-> path, pc |-> "read", handler |-> "waiting",
                            ret |-> 0, err |-> "", stable |-> TRUE,
                            resp |-> NoResponse]
                      ELSE Done(path, "waiting", 26, "", TRUE,
                                HTMLResponse(FallbackOf("waiting")))]
        /\ UNCHANGED <<environ, proc, fs>>

\* GET /waiting, second step.
waiting_read_text(r) ==
    /\ req[r].pc = "read"
    /\ req[r].handler = "waiting"
    /\ LET t == read_text(fs[template_path(r)])
       IN req' = [req EXCEPT ![r] =
                     IF t.ok
                     THEN Done(req[r].path, "waiting", 25, "", req[r].stable,
                               HTMLResponse(t.text))
                     ELSE Done(req[r].path, "waiting", 0, t.err, req[r].stable,
                               InternalServerError)]
    /\ UNCHANGED <<environ, proc, fs>>

\* GET of a path that differs from a route by its trailing slash.
redirect_slashes(r) ==
    \E path \in RequestPaths :
        /\ Accepting(r)
        /\ Route(path).kind = "redirect"
        /\ req' = [req EXCEPT ![r] =
                      Done(path, "none", 0, "", TRUE,
                           RedirectResponse(Route(path).location))]
        /\ UNCHANGED <<environ, proc, fs>>

\* GET of any other path.
not_found(r) ==
    \E path \in RequestPaths :
        /\ Accepting(r)
        /\ Route(path).kind = "default"
        /\ req' = [req EXCEPT ![r] = Done(path, "none", 0, "", TRUE, NotFound)]
        /\ UNCHANGED <<environ, proc, fs>>

\* The response has been sent; the slot is free again.
Close(r) ==
    /\ req[r].pc = "done"
    /\ req' = [req EXCEPT ![r] = Idle]
    /\ UNCHANGED <<environ, proc, fs>>

-----------------------------------------------------------------------------
(* Other actors on the filesystem *)

\* The template path a route is documented to serve.
Observes(path) ==
    IF path = <<"/">> THEN IndexTemplate
    ELSE IF path = <<"/", "waiting">> THEN WaitingTemplate
    ELSE "none"

Touched(p) ==
    [r \in Slots |->
        IF req[r].pc # "idle" /\ Observes(req[r].path) = p
        THEN [req[r] EXCEPT !.stable = FALSE]
        ELSE req[r]]

FsSet(p, node) ==
    /\ fs[p] # node
    /\ fs' = [fs EXCEPT ![p] = node]
    /\ req' = Touched(p)
    /\ UNCHANGED <<environ, proc>>

\* Another process creates or rewrites the file (making it readable), removes
\* the entry, makes a directory at the path, or takes the read permission away.
FsWrite(p, b) == fs[p].kind # "dir" /\ FsSet(p, RegularFile(b))
FsRemove(p) == fs[p].kind # "absent" /\ FsSet(p, Absent)
FsMkdir(p) == fs[p].kind = "absent" /\ FsSet(p, Directory)
FsChmod(p) == fs[p].kind = "file" /\ FsSet(p, UnreadableFile)

-----------------------------------------------------------------------------

Init ==
    /\ environ \in EnvSamples
    /\ proc = [state |-> "init", host |-> "", port |-> 0, error |-> ""]
    /\ fs \in [TemplatePaths -> Nodes]
    /\ req = [r \in Slots |-> Idle]

Next ==
    \/ main
    \/ \E r \in Slots : health(r)
    \/ \E r \in Slots : index(r)
    \/ \E r \in Slots : index_read_text(r)
    \/ \E r \in Slots : waiting(r)
    \/ \E r \in Slots : waiting_read_text(r)
    \/ \E r \in Slots : redirect_slashes(r)
    \/ \E r \in Slots : not_found(r)
    \/ \E r \in Slots : Close(r)
    \/ \E p \in TemplatePaths, b \in SampleContents : FsWrite(p, b)
    \/ \E p \in TemplatePaths : FsRemove(p)
    \/ \E p \in TemplatePaths : FsMkdir(p)
    \/ \E p \in TemplatePaths : FsChmod(p)

Spec == Init /\ [][Next]_vars

-----------------------------------------------------------------------------
(* Properties *)

Html == "text/html; charset=utf-8"

\* Request r has been answered and the path its route serves has not changed
\* since it was dispatched.
Answered(r, path) == req[r].pc = "done" /\ req[r].path = path /\ req[r].stable

HasCR(b) == \E i \in 1..Len(b) : b[i] = CR

\* C1 as stated: GET / answers 200 HTML with the fallback when the index
\* template path does not exist, and 200 HTML with exactly the file's contents
\* whenever it exists, whatever the contents.
C1_IndexExactContentsWheneverPresent ==
    \A r \in Slots :
        Answered(r, <<"/">>) =>
            LET n == fs[IndexTemplate]
            IN /\ req[r].resp.status = 200
               /\ req[r].resp.ctype = Html
               /\ n.kind = "absent" =>
                    req[r].resp.body =
                        <<"<html><body><h1>Session Manager</h1><p>Service is running</p></body></html>">>
               /\ n.kind # "absent" => req[r].resp.body = n.bytes

\* C1 amended: GET / answers 200 HTML with the fallback when the index template
\* path does not exist; when it is a readable regular file whose bytes decode,
\* it answers 200 HTML with the file's text as text mode reads it (CR LF and a
\* lone CR become LF), which is the exact contents when they hold no CR.
C1_IndexServesTextOrFallback ==
    \A r \in Slots :
        Answered(r, <<"/">>) =>
            LET n == fs[IndexTemplate]
            IN /\ n.kind = "absent" =>
                    req[r].resp =
                        [status |-> 200, ctype |-> Html,
                         body |-> <<"<html><body><h1>Session Manager</h1><p>Service is running</p></body></html>">>]
               /\ (n.kind = "file" /\ Decodable(n.bytes)) =>
                    /\ req[r].resp.status = 200
                    /\ req[r].resp.ctype = Html
                    /\ req[r].resp.body = TranslateNewlines(n.bytes)
                    /\ ~HasCR(req[r].resp.body)
                    /\ ~HasCR(n.bytes) => req[r].resp.body = n.bytes

\* GET / has served a file holding CR LF: the body has LF in their place.
C1_Witness ==
    \E r \in Slots :
        /\ Answered(r, <<"/">>)
        /\ fs[IndexTemplate] = RegularFile(<<"<p>a</p>", CR, LF, "<p>b</p>", CR>>)
        /\ req[r].resp.status = 200
        /\ req[r].resp.body = <<"<p>a</p>", LF, "<p>b</p>", LF>>

\* What a template route answers for the entry at its path, as a function of
\* that entry alone.
Resolved(n, fallback) ==
    IF n.kind = "absent"
    THEN [status |-> 200, ctype |-> Html, body |-> fallback]
    ELSE IF n.kind = "file" /\ Decodable(n.bytes)
    THEN [status |-> 200, ctype |-> Html, body |-> TranslateNewlines(n.bytes)]
    ELSE [status |-> 500, ctype |-> "text/plain; charset=utf-8",
          body |-> <<"Internal Server Error">>]

\* C2 as stated: GET /waiting answers 200 HTML in both cases, with the full
\* contents of the waiting template when it exists and its own fallback
\* otherwise, whatever the index template path holds (and conversely for /).
C2_WaitingExactContentsWheneverPresent ==
    \A r \in Slots :
        Answered(r, <<"/", "waiting">>) =>
            LET n == fs[WaitingTemplate]
            IN /\ req[r].resp.status = 200
               /\ req[r].resp.ctype = Html
               /\ req[r].resp.body =
                    IF n.kind = "absent"
                    THEN <<"<html><body><h1>Waiting</h1></body></html>">>
                    ELSE n.bytes

\* C2 amended: the answer of GET /waiting is determined by the entry at the
\* waiting template path alone (fallback when absent, the file's text as text
\* mode reads it when it is a readable, decodable regular file, the generic
\* server error otherwise), whatever the index template path holds or becomes
\* during the request; and the answer of GET / by the index template path alone.
C2_WaitingDependsOnItsOwnPathOnly ==
    \A r \in Slots :
        /\ Answered(r, <<"/", "waiting">>) =>
              req[r].resp =
                  Resolved(fs[WaitingTemplate],
                           <<"<html><body><h1>Waiting</h1></body></html>">>)
        /\ Answered(r, <<"/">>) =>
              req[r].resp.status = Resolved(fs[IndexTemplate], <<>>).status

\* GET /waiting has served its fallback while the index template is a file, and
\* at the same time GET / has served that file.
C2_Witness ==
    \E r, q \in Slots :
        /\ Answered(r, <<"/", "waiting">>)
        /\ fs[WaitingTemplate] = Absent
        /\ fs[IndexTemplate].kind = "file"
        /\ req[r].resp.body = <<"<html><body><h1>Waiting</h1></body></html>">>
        /\ Answered(q, <<"/">>)
        /\ req[q].resp.status = 200
        /\ req[q].ret = 18

\* C3: every answer to GET /health is status 200 with the payload
\* {"status": "healthy"}, whatever the template paths hold and whatever the
\* other requests are doing.
C3_HealthAlwaysHealthy ==
    \A r \in Slots :
        (req[r].pc # "idle" /\ req[r].path = <<"/", "health">>) =>
            /\ req[r].pc = "done"
            /\ req[r].resp.status = 200
            /\ req[r].resp.body = [status |-> "healthy"]

\* GET /health has been answered while the index template path is absent, the
\* waiting template path is a directory and another request is between its
\* existence check and its read.
C3_Witness ==
    \E r, q \in Slots :
        /\ req[r].pc = "done"
        /\ req[r].path = <<"/", "health">>
        /\ req[r].resp.status = 200
        /\ req[q].pc = "read"
        /\ fs[IndexTemplate] = Absent
        /\ fs[WaitingTemplate] = Directory

\* C4 as stated: no template handler ever fails because the file is missing,
\* in any interleaving of its existence check and its read with changes other
\* actors make to the filesystem.
C4_NeverFailsOnMissingFile ==
    \A r \in Slots : req[r].err # "FileNotFoundError"

TemplateRoutes == {<<"/">>, <<"/", "waiting">>}

\* C5: two answers of the same template route, both given while the path the
\* route serves stayed unchanged, are the same response.
C5_RepeatedCallsSameBody ==
    \A r, q \in Slots :
        \A path \in TemplateRoutes :
            (Answered(r, path) /\ Answered(q, path)) => req[r].resp = req[q].resp

\* GET / has been answered twice from the same readable file.
C5_Witness ==
    \E r, q \in Slots :
        /\ r # q
        /\ Answered(r, <<"/">>)
        /\ Answered(q, <<"/">>)
        /\ req[r].ret = 18
        /\ req[q].ret = 18
        /\ req[r].resp.body # <<>>

HandlerFor(path) ==
    IF path = <<"/", "health">> THEN "health"
    ELSE IF path = <<"/">> THEN "index"
    ELSE IF path = <<"/", "waiting">> THEN "waiting"
    ELSE "none"

NotFoundLiteral ==
    [status |-> 404, ctype |-> "application/json", body |-> [detail |-> "Not Found"]]

SlashVariant(path) ==
    /\ HandlerFor(path) = "none"
    /\ \/ HandlerFor(Append(path, "/")) # "none"
       \/ /\ Len(path) > 1
          /\ path[Len(path)] = "/"
          /\ HandlerFor(SubSeq(path, 1, Len(path) - 1)) # "none"

UnreadableAsText(n) ==
    \/ n.kind \in {"dir", "noperm"}
    \/ n.kind = "file" /\ ~Decodable(n.bytes)

\* C7: when the template path exists but reading it fails for another reason
\* than absence (a directory, no permission, undecodable bytes), the request
\* ends in the generic internal server error: no return statement of the
\* handler ran, and the answer is neither 200 nor the fallback nor part of the
\* file.
C7_ReadFailureIsServerError ==
    \A r \in Slots :
        \A path \in TemplateRoutes :
            (Answered(r, path) /\ UnreadableAsText(fs[Observes(path)])) =>
                /\ req[r].resp =
                      [status |-> 500, ctype |-> "text/plain; charset=utf-8",
                       body |-> <<"Internal Server Error">>]
                /\ req[r].ret = 0
                /\ req[r].err \in {"IsADirectoryError", "PermissionError", "UnicodeDecodeError"}

\* GET /waiting has failed on a file whose second byte does not decode.
C7_Witness ==
    \E r \in Slots :
        /\ Answered(r, <<"/", "waiting">>)
        /\ fs[WaitingTemplate] = RegularFile(<<"<p>a</p>", BadByte>>)
        /\ req[r].resp.status = 500
        /\ req[r].err = "UnicodeDecodeError"

FallbackLiteral(path) ==
    IF path = <<"/">>
    THEN <<"<html><body><h1>Session Manager</h1><p>Service is running</p></body></html>">>
    ELSE <<"<html><body><h1>Waiting</h1></body></html>">>

\* A step of a handler on behalf of request r.
HandlerStep(r) ==
    /\ req'[r].pc # req[r].pc
    /\ req'[r].pc \in {"read", "done"}

\* C8: requests share no mutable state.  Every answer given while the path
\* its route serves stayed unchanged is the answer that request would get
\* alone, whatever the other requests are doing; and a step of a handler
\* changes neither the filesystem, nor the process, nor another request.
C8_RequestsAreIndependent ==
    /\ [](\A r \in Slots :
            /\ \A path \in TemplateRoutes :
                  Answered(r, path) =>
                      req[r].resp = Resolved(fs[Observes(path)], FallbackLiteral(path))
            /\ Answered(r, <<"/", "health">>) =>
                  req[r].resp.body = [status |-> "healthy"])
    /\ [][\A r \in Slots :
            HandlerStep(r) =>
                /\ fs' = fs
                /\ proc' = proc
                /\ environ' = environ
                /\ \A q \in Slots \ {r} : req'[q] = req[q]]_vars

\* GET / has been answered from its file while a GET /waiting is between its
\* existence check and its read of another file.
C8_Witness ==
    \E r, q \in Slots :
        /\ Answered(r, <<"/">>)
        /\ req[r].ret = 18
        /\ req[q].pc = "read"
        /\ req[q].handler = "waiting"
        /\ fs[IndexTemplate] # fs[WaitingTemplate]
        /\ fs[WaitingTemplate].kind = "file"

\* C9: once the service listens it is bound to 0.0.0.0, on port 8080 when
\* SESSION_MANAGER_PORT is unset and on the variable's integer value when it
\* is set; with the variable unset the startup never fails.
C9_PortFromEnvironment ==
    /\ proc.state = "listening" =>
          /\ proc.host = "0.0.0.0"
          /\ ~environ.set => proc.port = 8080
          /\ environ = SetTo(<<" ", "9", "0">>) => proc.port = 90
          /\ environ.set => environ.val \in {<<" ", "9", "0">>}
    /\ proc.state = "crashed" => environ.set

\* The service listens on the port the variable names.
C9_Witness ==
    /\ proc.state = "listening"
    /\ environ.set
    /\ proc.port = 90
    /\ proc.host = "0.0.0.0"

\* C10: which return statement runs is decided by the existence of the
\* template path alone: the fallback is returned exactly when the path does
\* not exist, and an existing empty file is answered 200 with an empty body.
C10_ExistenceDecides ==
    \A r \in Slots :
        \A path \in TemplateRoutes :
            Answered(r, path) =>
                LET n == fs[Observes(path)]
                IN /\ req[r].ret \in {19, 26} <=> n.kind = "absent"
                   /\ n = RegularFile(<<>>) =>
                        /\ req[r].resp.status = 200
                        /\ req[r].resp.body = <<>>
                        /\ req[r].ret \in {18, 25}

\* Both routes have served an existing empty file with an empty body.
C10_Witness ==
    \E r, q \in Slots :
        /\ Answered(r, <<"/">>)
        /\ Answered(q, <<"/", "waiting">>)
        /\ fs[IndexTemplate] = RegularFile(<<>>)
        /\ fs[WaitingTemplate] = RegularFile(<<>>)
        /\ req[r].resp = [status |-> 200, ctype |-> Html, body |-> <<>>]
        /\ req[q].resp = [status |-> 200, ctype |-> Html, body |-> <<>>]

====
